---- MODULE Spec2Model ----
(***************************************************************************)
(* CorrelatorEnsemble of glue_analysis/correlator.py: the stored           *)
(* correlator and VEV data, the frozen flag, the schema checks             *)
(* CorrelatorData / VEVData, cross_validate, the freeze lifecycle, the     *)
(* dense reshaping get_numpy / get_numpy_vevs and get_pyerrors with        *)
(* to_obs_array.                                                           *)
(*                                                                         *)
(* Values are records with a kind field.  A pandas DataFrame is            *)
(*   [kind |-> "DataFrame", dtypes |-> [column -> dtype], rows |-> Seq]    *)
(* where every row is a function from the column names to integers (the    *)
(* float columns hold integer-valued measurements; their dtype is kept in  *)
(* dtypes).  An attribute that was never assigned is [kind |-> "unset"].   *)
(* A numpy array is [kind |-> "ndarray", shape |-> Seq, data |-> nested    *)
(* sequences].  pyerrors is an external library: pe.Obs and its            *)
(* arithmetic are kept as uninterpreted terms.                             *)
(***************************************************************************)
EXTENDS Integers, Sequences, FiniteSets, TLC

VARIABLES ensemble_name, correlators, vevs, frozen, call

vars == <<ensemble_name, correlators, vevs, frozen, call>>

-----------------------------------------------------------------------------
(* Bounds of the model *)

\* rows of a correlator table drawn for the freeze checks
MaxRows == 3
\* rows of a VEV table drawn for the freeze checks
MaxVevRows == 2
\* rows of the tables the lifecycle specification assigns through the setters
MaxLifeRows == 2
\* transpositions of neighbouring rows applied to a dense table in key order
MaxSwaps == 1
\* samples (extent of the leading axis) of an array handed to to_obs_array
MaxSamples == 2
\* extent of a non-sample axis of such an array
MaxExtent == 2
\* non-sample axes of such an array
MaxAxes == 3

\* index values the drawn tables use
MCTimes == 1..2
Times == 1..2
Internals == 1..2

-----------------------------------------------------------------------------
(* Values *)

Unset == [kind |-> "unset"]
NoneValue == [kind |-> "None"]
Garbage == {[kind |-> "str"], [kind |-> "int"], [kind |-> "ndarray1d"]}

DataFrame(dtypes, rows) == [kind |-> "DataFrame", dtypes |-> dtypes, rows |-> rows]

isinstance_DataFrame(value) == value.kind = "DataFrame"

hasattr(value) == value.kind # "unset"

Columns(df) == DOMAIN df.dtypes

Column(df, c) == [n \in 1..Len(df.rows) |-> df.rows[n][c]]

\* df[[c1, ..., ck]].values.tolist()
ValuesList(df, cs) == [n \in 1..Len(df.rows) |-> [k \in 1..Len(cs) |-> df.rows[n][cs[k]]]]

Range(s) == {s[n] : n \in 1..Len(s)}

-----------------------------------------------------------------------------
(* Sorting: sequences of equally long integer tuples, lexicographic order *)

LexLess(a, b) ==
    \E k \in 1..Len(a) : (\A m \in 1..(k - 1) : a[m] = b[m]) /\ a[k] < b[k]

RECURSIVE Insert(_, _, _)
Insert(keys, p, x) ==
    IF p = <<>> THEN <<x>>
    ELSE IF LexLess(keys[x], keys[Head(p)]) THEN <<x>> \o p
    ELSE <<Head(p)>> \o Insert(keys, Tail(p), x)

RECURSIVE ArgSortUpTo(_, _)
ArgSortUpTo(keys, n) ==
    IF n = 0 THEN <<>> ELSE Insert(keys, ArgSortUpTo(keys, n - 1), n)

\* the positions of keys in ascending order of their keys (stable)
argsort(keys) == ArgSortUpTo(keys, Len(keys))

\* the elements of l at the positions p, in the order of p
Take(l, p) == [k \in 1..Len(p) |-> l[p[k]]]

\* Python's sorted() on a list of lists
sorted(l) == Take(l, argsort(l))

\* Series.sort_values().values
sort_values_1(df, c) ==
    Take(Column(df, c), argsort(ValuesList(df, <<c>>)))

\* sort_values that leaves the rows as they are
sort_values_skipped(df, cs) == df

\* DataFrame.sort_values(by=cs)
sort_values(df, cs) ==
    DataFrame(df.dtypes, Take(df.rows, argsort(ValuesList(df, cs))))

\* some element of l repeats an earlier one
Repeats(l) == \E m, n \in 1..Len(l) : m < n /\ l[m] = l[n]

\* DataFrame[cs].duplicated().any()
duplicated_any(df, cs) == Repeats(ValuesList(df, cs))

-----------------------------------------------------------------------------
(* Schemas *)

CorrelatorData_dtypes ==
    [MC_Time |-> "int64", Time |-> "int64", Internal1 |-> "any",
     Internal2 |-> "any", Correlation |-> "float64"]

VEVData_dtypes ==
    [MC_Time |-> "int64", Internal |-> "any", Vac_exp |-> "float64"]

\* pa.Column(dtype, required=True) of every column of a schema
ColumnsValid(schema, df) ==
    /\ DOMAIN schema \subseteq Columns(df)
    /\ \A c \in DOMAIN schema : schema[c] = "any" \/ df.dtypes[c] = schema[c]

\* the internals check without the sorting
Check_Internals_equal_unsorted(df) ==
    \A n \in 1..Len(df.rows) : df.rows[n]["Internal1"] = df.rows[n]["Internal2"]

\* the internals check on the sets of values
Check_Internals_equal_as_sets(df) ==
    Range(Column(df, "Internal1")) = Range(Column(df, "Internal2"))

\* (a == b).all() on two arrays of one length
all_equal(a, b) == \A n \in 1..Len(a) : a[n] = b[n]

Check_Internals_equal(df) ==
    all_equal(sort_values_1(df, "Internal1"), sort_values_1(df, "Internal2"))

Check_unique_indexing(df) ==
    ~duplicated_any(df, <<"MC_Time", "Time", "Internal1", "Internal2">>)

Check_unique_indexing_vevs(df) ==
    ~duplicated_any(df, <<"MC_Time", "Internal">>)

\* CorrelatorData.validate(df): TRUE when it returns, FALSE when it raises SchemaError
CorrelatorData_validate(df) ==
    /\ ColumnsValid(CorrelatorData_dtypes, df)
    /\ Check_Internals_equal(df)
    /\ Check_unique_indexing(df)

\* VEVData.validate(df)
VEVData_validate(df) ==
    /\ ColumnsValid(VEVData_dtypes, df)
    /\ Check_unique_indexing_vevs(df)

\* the rows of a (Time, Internal2) group, as [MC_Time, Internal1] lists
GroupList(corr, g) ==
    ValuesList(DataFrame(corr.dtypes,
                         SelectSeq(corr.rows, LAMBDA r : <<r.Time, r.Internal2>> = g)),
               <<"MC_Time", "Internal1">>)

GroupKeys(corr) == Range(ValuesList(corr, <<"Time", "Internal2">>))

\* cross_validate with any() in place of all()
cross_validate_any(corr, v) ==
    \E g \in GroupKeys(corr) :
        sorted(GroupList(corr, g)) = sorted(ValuesList(v, <<"MC_Time", "Internal">>))

\* cross_validate(corr, vevs): TRUE when it returns, FALSE when it raises
\* DataInconsistencyError
cross_validate(corr, v) ==
    \A g \in GroupKeys(corr) :
        sorted(GroupList(corr, g)) = sorted(ValuesList(v, <<"MC_Time", "Internal">>))

-----------------------------------------------------------------------------
(* freeze *)

\* the exception freeze() ends with on stored data c, v ("none": it returns self)
freeze_exc(c, v) ==
    IF ~hasattr(c) THEN "AttributeError"
    ELSE IF ~isinstance_DataFrame(c) THEN "TypeError"
    ELSE IF hasattr(v) /\ ~isinstance_DataFrame(v) THEN "TypeError"
    ELSE IF ~CorrelatorData_validate(c) THEN "SchemaError"
    ELSE IF ~hasattr(v) THEN "none"
    ELSE IF ~VEVData_validate(v) THEN "SchemaError"
    ELSE IF ~cross_validate(c, v) THEN "DataInconsistencyError"
    ELSE "none"

Call(op, arg, exc, ret) == [op |-> op, arg |-> arg, exc |-> exc, ret |-> ret]

\* freeze that validates and forgets to set the flag
freeze_without_flag ==
    \E exc \in {freeze_exc(correlators, vevs)} :
    /\ call' = Call("freeze", NoneValue, exc,
                    IF exc = "none" THEN [kind |-> "self"] ELSE NoneValue)
    /\ UNCHANGED <<ensemble_name, correlators, vevs, frozen>>

\* freeze that sets the flag before it validates
freeze_flag_first ==
    \E exc \in {freeze_exc(correlators, vevs)} :
    /\ frozen' = TRUE
    /\ call' = Call("freeze", NoneValue, exc,
                    IF exc = "none" THEN [kind |-> "self"] ELSE NoneValue)
    /\ UNCHANGED <<ensemble_name, correlators, vevs>>

freeze ==
    \E exc \in {freeze_exc(correlators, vevs)} :
    /\ frozen' = IF exc = "none" THEN TRUE ELSE frozen
    /\ call' = Call("freeze", NoneValue, exc,
                    IF exc = "none" THEN [kind |-> "self"] ELSE NoneValue)
    /\ UNCHANGED <<ensemble_name, correlators, vevs>>

-----------------------------------------------------------------------------
(* Accessors *)

\* the correlators setter without its frozen guard
set_correlators_unguarded(value) ==
    /\ correlators' = value
    /\ call' = Call("set_correlators", value, "none", NoneValue)
    /\ UNCHANGED <<ensemble_name, vevs, frozen>>

set_correlators(value) ==
    /\ IF ~frozen
       THEN /\ correlators' = value
            /\ call' = Call("set_correlators", value, "none", NoneValue)
       ELSE /\ correlators' = correlators
            /\ call' = Call("set_correlators", value, "FrozenError", NoneValue)
    /\ UNCHANGED <<ensemble_name, vevs, frozen>>

\* the vevs setter without its frozen guard
set_vevs_unguarded(value) ==
    /\ vevs' = value
    /\ call' = Call("set_vevs", value, "none", NoneValue)
    /\ UNCHANGED <<ensemble_name, correlators, frozen>>

set_vevs(value) ==
    /\ IF ~frozen
       THEN /\ vevs' = value
            /\ call' = Call("set_vevs", value, "none", NoneValue)
       ELSE /\ vevs' = vevs
            /\ call' = Call("set_vevs", value, "FrozenError", NoneValue)
    /\ UNCHANGED <<ensemble_name, correlators, frozen>>

get_correlators ==
    /\ call' = IF hasattr(correlators)
               THEN Call("correlators", NoneValue, "none", correlators)
               ELSE Call("correlators", NoneValue, "AttributeError", NoneValue)
    /\ UNCHANGED <<ensemble_name, correlators, vevs, frozen>>

get_vevs ==
    /\ call' = IF hasattr(vevs)
               THEN Call("vevs", NoneValue, "none", vevs)
               ELSE Call("vevs", NoneValue, "AttributeError", NoneValue)
    /\ UNCHANGED <<ensemble_name, correlators, vevs, frozen>>

get_frozen ==
    /\ call' = Call("frozen", NoneValue, "none", [kind |-> "bool", value |-> frozen])
    /\ UNCHANGED <<ensemble_name, correlators, vevs, frozen>>

-----------------------------------------------------------------------------
(* Derived dimensions: results are [exc |-> ..., ret |-> ...] *)

Ok(ret) == [exc |-> "none", ret |-> ret]
Raise(exc) == [exc |-> exc, ret |-> NoneValue]

Max(S) == CHOOSE x \in S : \A y \in S : y <= x

\* max(self._correlators.<c>)
max_column(c, col) ==
    IF ~isinstance_DataFrame(c) THEN Raise("AttributeError")
    ELSE IF col \notin Columns(c) THEN Raise("AttributeError")
    ELSE IF Len(c.rows) = 0 THEN Raise("ValueError")
    ELSE Ok(Max(Range(Column(c, col))))

NT(c) == max_column(c, "Time")

num_internal(c) == max_column(c, "Internal1")

num_samples(c) == max_column(c, "MC_Time")

Result(op, arg, r) == Call(op, arg, r.exc, r.ret)

\* the integer a property returns
IntResult(r) == IF r.exc = "none" THEN Ok([kind |-> "int", value |-> r.ret]) ELSE r

\* r when it raised, and otherwise what F makes of its value
Then(r, F(_)) == IF r.exc # "none" THEN r ELSE F(r.ret)

get_NT ==
    /\ call' = Result("NT", NoneValue, IntResult(NT(correlators)))
    /\ UNCHANGED <<ensemble_name, correlators, vevs, frozen>>

get_num_internal ==
    /\ call' = Result("num_internal", NoneValue, IntResult(num_internal(correlators)))
    /\ UNCHANGED <<ensemble_name, correlators, vevs, frozen>>

get_num_samples ==
    /\ call' = Result("num_samples", NoneValue, IntResult(num_samples(correlators)))
    /\ UNCHANGED <<ensemble_name, correlators, vevs, frozen>>

-----------------------------------------------------------------------------
(* Dense arrays *)

ndarray(shape, data) == [kind |-> "ndarray", shape |-> shape, data |-> data]

RECURSIVE Product(_)
Product(shape) == IF shape = <<>> THEN 1 ELSE Head(shape) * Product(Tail(shape))

\* the nested (row-major) view of a flat sequence under a shape of extents >= 1
RECURSIVE Nest(_, _)
Nest(flat, shape) ==
    IF Len(shape) = 1 THEN flat
    ELSE LET chunk == Len(flat) \div shape[1] IN
         [k \in 1..shape[1] |->
             Nest(SubSeq(flat, (k - 1) * chunk + 1, k * chunk), Tail(shape))]

\* values.reshape(*shape)
reshape(flat, shape) ==
    IF Product(shape) # Len(flat) THEN Raise("ValueError")
    ELSE Ok(ndarray(shape, Nest(flat, shape)))

get_numpy(c) ==
    IF ~isinstance_DataFrame(c) THEN Raise("AttributeError")
    ELSE IF ~({"MC_Time", "Time", "Internal1", "Internal2"} \subseteq Columns(c))
    THEN Raise("KeyError")
    ELSE IF "Correlation" \notin Columns(c) THEN Raise("AttributeError")
    ELSE LET sorted_correlators ==
                 sort_values(c, <<"MC_Time", "Time", "Internal1", "Internal2">>)
         IN reshape(Column(sorted_correlators, "Correlation"),
                    <<num_samples(c).ret, NT(c).ret,
                      num_internal(c).ret, num_internal(c).ret>>)

get_numpy_vevs(c, v) ==
    IF ~isinstance_DataFrame(v) THEN Raise("AttributeError")
    ELSE IF ~({"MC_Time", "Internal"} \subseteq Columns(v)) THEN Raise("KeyError")
    ELSE IF "Vac_exp" \notin Columns(v) THEN Raise("AttributeError")
    ELSE IF num_samples(c).exc # "none" THEN num_samples(c)
    ELSE IF num_internal(c).exc # "none" THEN num_internal(c)
    ELSE LET sorted_vevs == sort_values(v, <<"MC_Time", "Internal">>)
         IN reshape(Column(sorted_vevs, "Vac_exp"),
                    <<num_samples(c).ret, num_internal(c).ret>>)

-----------------------------------------------------------------------------
(* Observables: pyerrors terms *)

\* pe.Obs(samples, names)
Obs(samples, names) == [kind |-> "Obs", samples |-> samples, names |-> names]

Float(x) == [kind |-> "float", value |-> x]

\* a - b; subtracting the constant 0.0 leaves the observable's value and
\* fluctuations as they are
ObsSub(a, b) == IF b.kind = "float" /\ b.value = 0 THEN a ELSE [kind |-> "sub", l |-> a, r |-> b]

ObsMul(a, b) == [kind |-> "mul", l |-> a, r |-> b]

ObsDiv(a, n) == [kind |-> "div", l |-> a, r |-> n]

\* the array as it is, its axes not moved
moveaxis_skipped(data) == data

\* np.moveaxis(array, 1, 0) on nested data
moveaxis_1_0(data) ==
    [k \in 1..Len(data[1]) |-> [s \in 1..Len(data) |-> data[s][k]]]

RECURSIVE to_obs_nested(_, _, _)
RECURSIVE to_obs_each(_, _, _)

\* [to_obs_array(sub_array, ensemble_name) for sub_array in moved]
to_obs_each(moved, ndim, name) ==
    [k \in 1..Len(moved) |-> to_obs_nested(moved[k], ndim, name)]

to_obs_nested(data, ndim, name) ==
    IF ndim = 1 THEN Obs(<<data>>, <<name>>)
    ELSE to_obs_each(moveaxis_1_0(data), ndim - 1, name)

to_obs_array(array, name) ==
    IF Len(array.shape) = 1 THEN to_obs_nested(array.data, 1, name)
    ELSE ndarray(Tail(array.shape), to_obs_nested(array.data, Len(array.shape), name))

\* np.outer(v, w) of two vectors of observables
outer(v, w) ==
    ndarray(<<v.shape[1], w.shape[1]>>,
            [i \in 1..v.shape[1] |-> [j \in 1..w.shape[1] |-> ObsMul(v.data[i], w.data[j])]])

\* np.outer(*(2 * [v]))
outer_twice(v) == outer(v, v)

\* matrix / n, elementwise
divide(m, n) ==
    ndarray(m.shape, [i \in 1..m.shape[1] |-> [j \in 1..m.shape[2] |-> ObsDiv(m.data[i][j], n)]])

\* (T, N, N) array minus a constant: elementwise
subtract_scalar(a, x) ==
    ndarray(a.shape,
            [t \in 1..a.shape[1] |-> [i \in 1..a.shape[2] |-> [j \in 1..a.shape[3] |->
                ObsSub(a.data[t][i][j], x)]]])

\* (T, N, N) array minus an (N, N) matrix: numpy broadcasts the matrix over
\* the leading axis; extents that differ and are not 1 raise ValueError
subtract_matrix(a, m) ==
    IF a.shape[2] # m.shape[1] \/ a.shape[3] # m.shape[2] THEN Raise("ValueError")
    ELSE Ok(ndarray(a.shape,
            [t \in 1..a.shape[1] |-> [i \in 1..a.shape[2] |-> [j \in 1..a.shape[3] |->
                ObsSub(a.data[t][i][j], m.data[i][j])]]]))

\* pe.Corr(array)
Corr(array) == [kind |-> "Corr", content |-> array.data, shape |-> array.shape]

\* the normalisation without the square
NT_unsquared(c) == NT(c).ret

\* self.NT**2
NT_squared(c) == NT(c).ret * NT(c).ret

\* what get_pyerrors returns once the dense correlator array is there
pyerrors_of(corr_np, c, v, name, subtract) ==
    IF ~subtract
    THEN Ok(Corr(subtract_scalar(to_obs_array(corr_np, name), Float(0))))
    ELSE Then(get_numpy_vevs(c, v), LAMBDA vevs_np :
             Then(subtract_matrix(to_obs_array(corr_np, name),
                                  divide(outer_twice(to_obs_array(vevs_np, name)),
                                         NT_squared(c))),
                  LAMBDA diff : Ok(Corr(diff))))

\* get_pyerrors without the check for missing VEV data
get_pyerrors_unchecked(c, v, name, subtract) ==
    Then(get_numpy(c), LAMBDA corr_np : pyerrors_of(corr_np, c, v, name, subtract))

get_pyerrors(c, v, name, subtract) ==
    IF subtract /\ ~hasattr(v)
    THEN Raise("ValueError")
    ELSE Then(get_numpy(c), LAMBDA corr_np : pyerrors_of(corr_np, c, v, name, subtract))

call_get_numpy ==
    /\ call' = Result("get_numpy", NoneValue, get_numpy(correlators))
    /\ UNCHANGED <<ensemble_name, correlators, vevs, frozen>>

call_get_numpy_vevs ==
    /\ call' = Result("get_numpy_vevs", NoneValue, get_numpy_vevs(correlators, vevs))
    /\ UNCHANGED <<ensemble_name, correlators, vevs, frozen>>

call_get_pyerrors(subtract) ==
    /\ call' = Result("get_pyerrors", [kind |-> "bool", value |-> subtract],
                      get_pyerrors(correlators, vevs, ensemble_name, subtract))
    /\ UNCHANGED <<ensemble_name, correlators, vevs, frozen>>

-----------------------------------------------------------------------------
(* Construction *)

NameArgs == {[kind |-> "None"], [kind |-> "str", value |-> ""],
             [kind |-> "str", value |-> "some-other-name"]}

\* __init__: ensemble_name if ensemble_name else "glue_bins"
init_ensemble_name(arg) ==
    IF arg.kind = "str" /\ arg.value # "" THEN arg.value ELSE "glue_bins"

\* the ensemble after CorrelatorEnsemble(filename, ensemble_name)
Constructed ==
    /\ ensemble_name \in {init_ensemble_name(a) : a \in NameArgs}
    /\ correlators = Unset
    /\ vevs = Unset
    /\ frozen = FALSE
    /\ call = Call("__init__", NoneValue, "none", NoneValue)

-----------------------------------------------------------------------------
(* The tables the specifications draw *)

CorrRow(mc, t, i1, i2) ==
    [MC_Time |-> mc, Time |-> t, Internal1 |-> i1, Internal2 |-> i2,
     Correlation |-> 1000 * mc + 100 * t + 10 * i1 + i2]

VevRow(mc, i) == [MC_Time |-> mc, Internal |-> i, Vac_exp |-> 10 * mc + i]

CorrKey(r) == <<r.MC_Time, r.Time, r.Internal1, r.Internal2>>

VevKey(r) == <<r.MC_Time, r.Internal>>

CorrRows == {CorrRow(mc, t, i1, i2) : mc \in MCTimes, t \in Times,
                                      i1 \in Internals, i2 \in Internals}

VevRows == {VevRow(mc, i) : mc \in MCTimes, i \in Internals}

CorrTable(rows) == DataFrame(CorrelatorData_dtypes, rows)

VevTable(rows) == DataFrame(VEVData_dtypes, rows)

SeqsUpTo(S, n) == UNION {[1..m -> S] : m \in 1..n}

\* correlator row sequences listed in ascending key order (repeats allowed)
CorrRowSeqs ==
    {s \in SeqsUpTo(CorrRows, MaxRows) :
        \A k \in 1..(Len(s) - 1) : ~LexLess(CorrKey(s[k + 1]), CorrKey(s[k]))}

\* VEV row sequences listed in ascending key order (repeats allowed)
VevRowSeqs ==
    {s \in SeqsUpTo(VevRows, MaxVevRows) :
        \A k \in 1..(Len(s) - 1) : ~LexLess(VevKey(s[k + 1]), VevKey(s[k]))}

\* df.drop(c, axis="columns")
DropColumn(df, c) ==
    DataFrame([x \in Columns(df) \ {c} |-> df.dtypes[x]],
              [n \in 1..Len(df.rows) |-> [x \in Columns(df) \ {c} |-> df.rows[n][x]]])

\* df.astype({c: d})
WithDtype(df, c, d) == DataFrame([df.dtypes EXCEPT ![c] = d], df.rows)

\* the tables the lifecycle assigns: every row sequence, in every order, over
\* the rows of the first sample and time slice
LifeCorrTables ==
    {CorrTable(s) : s \in SeqsUpTo({r \in CorrRows : r.MC_Time = 1 /\ r.Time = 1},
                                   MaxLifeRows)}

LifeVevTables ==
    {VevTable(s) : s \in SeqsUpTo({r \in VevRows : r.MC_Time = 1}, MaxLifeRows)}

\* tables with a column dropped or of another element type
CorrVariants ==
    LET base == {t \in LifeCorrTables : Len(t.rows) = 1} IN
    {DropColumn(t, c) : t \in base, c \in DOMAIN CorrelatorData_dtypes}
        \cup {WithDtype(t, "Correlation", "int64") : t \in base}
        \cup {WithDtype(t, "Time", "float64") : t \in base}

VevVariants ==
    LET base == {t \in LifeVevTables : Len(t.rows) = 1} IN
    {DropColumn(t, c) : t \in base, c \in DOMAIN VEVData_dtypes}
        \cup {WithDtype(t, "Vac_exp", "int64") : t \in base}

LifeCorrValues == LifeCorrTables \cup CorrVariants \cup Garbage

LifeVevValues == LifeVevTables \cup VevVariants \cup Garbage

-----------------------------------------------------------------------------
(* Lifecycle: every public operation on a newly constructed ensemble *)

Init == Constructed

Next ==
    \/ \E value \in LifeCorrValues : set_correlators(value)
    \/ \E value \in LifeVevValues : set_vevs(value)
    \/ get_correlators
    \/ get_vevs
    \/ get_frozen
    \/ freeze
    \/ get_NT
    \/ get_num_internal
    \/ get_num_samples
    \/ call_get_numpy
    \/ call_get_numpy_vevs
    \/ \E subtract \in BOOLEAN : call_get_pyerrors(subtract)

Spec == Init /\ [][Next]_vars

-----------------------------------------------------------------------------
(* Freezing: an unfrozen ensemble that was assigned correlator data, and *)
(* VEV data or none, is frozen                                          *)

FreezeCorrValues ==
    {CorrTable(s) : s \in CorrRowSeqs} \cup LifeCorrValues

FreezeVevValues ==
    {VevTable(s) : s \in VevRowSeqs} \cup LifeVevValues \cup {Unset}

InitFreeze ==
    /\ ensemble_name = init_ensemble_name([kind |-> "None"])
    /\ correlators \in FreezeCorrValues
    /\ vevs \in FreezeVevValues
    /\ frozen = FALSE
    /\ call = Call("set", NoneValue, "none", NoneValue)

NextFreeze == freeze

SpecFreeze == InitFreeze /\ [][NextFreeze]_vars

-----------------------------------------------------------------------------
(* Dense tables: one row per key, rows shuffled; the array operations *)

\* the rows of the dense table of extents (S, T, N, N), in key order
DenseCorrRows(S, T, N) ==
    [k \in 1..(S * T * N * N) |->
        CorrRow(((k - 1) \div (T * N * N)) + 1, (((k - 1) \div (N * N)) % T) + 1,
                (((k - 1) \div N) % N) + 1, ((k - 1) % N) + 1)]

DenseVevRows(S, N) ==
    [k \in 1..(S * N) |-> VevRow(((k - 1) \div N) + 1, ((k - 1) % N) + 1)]

Swap(s, a, b) == [s EXCEPT ![a] = s[b], ![b] = s[a]]

\* the orders reached from s by at most k transpositions of neighbouring rows
RECURSIVE Shuffles(_, _)
Shuffles(s, k) ==
    IF k = 0 THEN {s}
    ELSE LET prev == Shuffles(s, k - 1) IN
         prev \cup {Swap(r, a, a + 1) : r \in prev, a \in 1..(Len(s) - 1)}

DenseCorrTables ==
    UNION {{CorrTable(s) : s \in Shuffles(DenseCorrRows(S, T, N), MaxSwaps)} :
              S \in MCTimes, T \in Times, N \in Internals}

DenseVevTables ==
    UNION {{VevTable(s) : s \in Shuffles(DenseVevRows(S, N), MaxSwaps)} :
              S \in MCTimes, N \in Internals}

InitDense ==
    /\ ensemble_name = init_ensemble_name([kind |-> "str", value |-> "some-other-name"])
    /\ correlators \in DenseCorrTables
    /\ vevs \in DenseVevTables \cup {Unset}
    /\ frozen = FALSE
    /\ call = Call("set", NoneValue, "none", NoneValue)

NextDense ==
    \/ get_NT
    \/ get_num_internal
    \/ get_num_samples
    \/ call_get_numpy
    \/ call_get_numpy_vevs
    \/ \E subtract \in BOOLEAN : call_get_pyerrors(subtract)

SpecDense == InitDense /\ [][NextDense]_vars

-----------------------------------------------------------------------------
(* Observables of an array: to_obs_array applied to arrays of every shape *)

ObsNames == {"some-name", "other-name"}

Fills == {"arange", "ones"}

\* np.arange(n) and np.ones(n) as flat sequences
Filled(fill, n) == [p \in 1..n |-> IF fill = "arange" THEN p - 1 ELSE 1]

\* the shapes (S, d1, ..., dk) with k non-sample axes
ShapesOf(k) ==
    {<<S>> \o d : S \in 1..MaxSamples, d \in [1..k -> 1..MaxExtent]}

Shapes == UNION {ShapesOf(k) : k \in 0..MaxAxes}

\* np.arange(n).reshape(shape), np.ones(shape)
Arrays ==
    {ndarray(shape, Nest(Filled(fill, Product(shape)), shape)) :
        shape \in Shapes, fill \in Fills}

InitObs ==
    /\ ensemble_name \in ObsNames
    /\ correlators = Unset
    /\ vevs = Unset
    /\ frozen = FALSE
    /\ call \in {Call("np.array", NoneValue, "none", array) : array \in Arrays}

call_to_obs_array ==
    /\ call.op = "np.array"
    /\ call' = Call("to_obs_array", call.ret, "none", to_obs_array(call.ret, ensemble_name))
    /\ UNCHANGED <<ensemble_name, correlators, vevs, frozen>>

NextObs == call_to_obs_array

SpecObs == InitObs /\ [][NextObs]_vars

-----------------------------------------------------------------------------
(* Claims *)

Setters == {"set_correlators", "set_vevs"}

C2_FreezeOneWay ==
    [][/\ (call'.op = "freeze" /\ call'.exc = "none") =>
              (frozen' /\ call'.ret = [kind |-> "self"])
       /\ frozen => frozen']_vars

\* freeze() succeeded on an ensemble that was assigned through the setters
C2_Witness ==
    /\ frozen
    /\ call.op = "freeze"
    /\ call.exc = "none"
    /\ call.ret.kind = "self"
    /\ hasattr(vevs)

Count(l, x) == Cardinality({n \in 1..Len(l) : l[n] = x})

\* l and m hold the same elements, each equally often
SameElements(l, m) == \A x \in Range(l) \cup Range(m) : Count(l, x) = Count(m, x)

CorrColumnsTyped(c) ==
    /\ {"MC_Time", "Time", "Internal1", "Internal2", "Correlation"} \subseteq Columns(c)
    /\ c.dtypes["MC_Time"] = "int64"
    /\ c.dtypes["Time"] = "int64"
    /\ c.dtypes["Correlation"] = "float64"

UniqueCorrKeys(c) ==
    \A m, n \in 1..Len(c.rows) : m # n => CorrKey(c.rows[m]) # CorrKey(c.rows[n])

UniqueVevKeys(v) ==
    \A m, n \in 1..Len(v.rows) : m # n => VevKey(v.rows[m]) # VevKey(v.rows[n])

C3_Table(c) ==
    /\ isinstance_DataFrame(c)
    /\ CorrColumnsTyped(c)
    /\ UniqueCorrKeys(c)

\* C3 as stated: a correlator table with the required columns and types,
\* unique keys and equal SETS of Internal1 and Internal2 values, held by an
\* unfrozen ensemble without VEV data, is frozen successfully.
C3_SetEqualFreezes ==
    [][(/\ ~frozen
        /\ call'.op = "freeze"
        /\ ~hasattr(vevs)
        /\ C3_Table(correlators)
        /\ Range(Column(correlators, "Internal1")) = Range(Column(correlators, "Internal2")))
           => (call'.exc = "none" /\ frozen')]_vars

\* C3 amended: the same with Internal1 and Internal2 holding the same values
\* equally often (equal as sorted sequences) in place of equal sets.
C3_SortedEqualFreezes ==
    [][(/\ ~frozen
        /\ call'.op = "freeze"
        /\ ~hasattr(vevs)
        /\ C3_Table(correlators)
        /\ SameElements(Column(correlators, "Internal1"), Column(correlators, "Internal2")))
           => (call'.exc = "none" /\ frozen')]_vars

\* freeze() succeeded without VEV data on a table whose Internal1 and
\* Internal2 columns differ row by row and agree once sorted
C3_Witness ==
    /\ frozen
    /\ call.op = "freeze"
    /\ call.exc = "none"
    /\ ~hasattr(vevs)
    /\ Len(correlators.rows) >= 2
    /\ Column(correlators, "Internal1") # Column(correlators, "Internal2")

\* C4 as stated: freeze() on an unfrozen ensemble whose correlator data is not
\* a table (a non-table value, or never assigned), or whose correlator data is
\* a table and whose VEV data was assigned and is not a table, fails with
\* TypeError and leaves frozen false.
C4_FreezeTypeError ==
    [][(/\ ~frozen
        /\ call'.op = "freeze"
        /\ \/ ~isinstance_DataFrame(correlators)
           \/ (hasattr(vevs) /\ ~isinstance_DataFrame(vevs)))
           => (call'.exc = "TypeError" /\ ~frozen')]_vars

\* C5: a freeze() that fails leaves frozen false and both stored values as
\* they were, and the setters still store what they are given afterwards; a
\* freeze() that succeeds changes nothing but the frozen flag.
C5_FreezeChangesOnlyFlag ==
    [][/\ call'.op = "freeze" =>
              /\ correlators' = correlators
              /\ vevs' = vevs
              /\ ensemble_name' = ensemble_name
              /\ call'.exc # "none" => (~frozen /\ ~frozen')
       /\ (call.op = "freeze" /\ call.exc # "none" /\ call'.op = "set_correlators") =>
              (call'.exc = "none" /\ correlators' = call'.arg)
       /\ (call.op = "freeze" /\ call.exc # "none" /\ call'.op = "set_vevs") =>
              (call'.exc = "none" /\ vevs' = call'.arg)]_vars

\* a freeze() failed on the cross-consistency check and the ensemble is unfrozen
C5_Witness ==
    /\ ~frozen
    /\ call.op = "freeze"
    /\ call.exc = "DataInconsistencyError"

CorrSchemaInvalid(c) ==
    /\ isinstance_DataFrame(c)
    /\ \/ ~({"MC_Time", "Time", "Internal1", "Internal2", "Correlation"} \subseteq Columns(c))
       \/ ~UniqueCorrKeys(c)
       \/ ~SameElements(Column(c, "Internal1"), Column(c, "Internal2"))

VevKeysRepeated(v) ==
    /\ isinstance_DataFrame(v)
    /\ {"MC_Time", "Internal"} \subseteq Columns(v)
    /\ ~UniqueVevKeys(v)

\* C6 as stated: freeze() on a correlator table that lacks a required column,
\* repeats a key or has Internal1 and Internal2 differing as sorted sequences,
\* or on a VEV table that repeats a key, fails with SchemaError and leaves
\* frozen false.
C6_InvalidRaisesSchemaError ==
    [][(call'.op = "freeze" /\ (CorrSchemaInvalid(correlators) \/ VevKeysRepeated(vevs)))
           => (call'.exc = "SchemaError" /\ ~frozen')]_vars

\* C6 amended: on such data freeze() never succeeds and frozen stays false;
\* the failure is SchemaError whenever the correlator data is a table and the
\* VEV data is absent or a table, and TypeError when either assigned value is
\* not a table (the type checks come first).
C6_InvalidNeverFreezes ==
    [][(call'.op = "freeze" /\ (CorrSchemaInvalid(correlators) \/ VevKeysRepeated(vevs)))
           => /\ call'.exc # "none"
              /\ ~frozen'
              /\ (isinstance_DataFrame(correlators)
                    /\ (~hasattr(vevs) \/ isinstance_DataFrame(vevs)))
                     => call'.exc = "SchemaError"
              /\ (isinstance_DataFrame(correlators)
                    /\ hasattr(vevs) /\ ~isinstance_DataFrame(vevs))
                     => call'.exc = "TypeError"
              /\ (hasattr(correlators) /\ ~isinstance_DataFrame(correlators))
                     => call'.exc = "TypeError"]_vars

\* freeze() raised SchemaError on a table with all columns and unique keys
\* whose Internal1 and Internal2 agree as sets and differ once sorted
C6_Witness ==
    /\ ~frozen
    /\ call.op = "freeze"
    /\ call.exc = "SchemaError"
    /\ C3_Table(correlators)
    /\ Range(Column(correlators, "Internal1")) = Range(Column(correlators, "Internal2"))
    /\ ~SameElements(Column(correlators, "Internal1"), Column(correlators, "Internal2"))

\* the rows of corr that share row n's (Time, Internal2), as (MC_Time, Internal1)
GroupOfRow(c, n) ==
    LET sel == SelectSeq(c.rows, LAMBDA r : r.Time = c.rows[n].Time
                                           /\ r.Internal2 = c.rows[n].Internal2)
    IN [k \in 1..Len(sel) |-> <<sel[k].MC_Time, sel[k].Internal1>>]

VevPairs(v) == [k \in 1..Len(v.rows) |-> <<v.rows[k].MC_Time, v.rows[k].Internal>>]

GroupAgrees(c, v, n) == SameElements(GroupOfRow(c, n), VevPairs(v))

BothPassSchema(c, v) ==
    /\ isinstance_DataFrame(c)
    /\ isinstance_DataFrame(v)
    /\ CorrelatorData_validate(c)
    /\ VEVData_validate(v)

\* C7: with VEV data present and both tables passing their schemas, freeze()
\* succeeds exactly when every (Time, Internal2) group of the correlator table
\* holds the same (MC_Time, Internal1) pairs as the VEV table holds
\* (MC_Time, Internal) pairs; if one group differs it raises
\* DataInconsistencyError and frozen stays false.
C7_CrossConsistency ==
    [][(~frozen /\ call'.op = "freeze" /\ BothPassSchema(correlators, vevs)) =>
           LET agree == \A n \in 1..Len(correlators.rows) : GroupAgrees(correlators, vevs, n)
           IN /\ (call'.exc = "none" /\ frozen') <=> agree
              /\ ~agree => (call'.exc = "DataInconsistencyError" /\ ~frozen')]_vars

\* freeze() raised DataInconsistencyError on tables of which one group agrees
\* with the VEV table and another does not
C7_Witness ==
    /\ ~frozen
    /\ call.op = "freeze"
    /\ call.exc = "DataInconsistencyError"
    /\ \E n \in 1..Len(correlators.rows) : GroupAgrees(correlators, vevs, n)
    /\ \E n \in 1..Len(correlators.rows) : ~GroupAgrees(correlators, vevs, n)

\* C9: without VEV data, frozen or not, get_pyerrors(subtract=True) raises
\* ValueError and changes nothing; get_pyerrors(subtract=False) gives what it
\* gives without VEV data; and a frozen ensemble without VEV data never gets any.
C9_SubtractNeedsVevs ==
    [][/\ (~hasattr(vevs) /\ call'.op = "get_pyerrors" /\ call'.arg.value) =>
              /\ call'.exc = "ValueError"
              /\ correlators' = correlators
              /\ vevs' = vevs
              /\ frozen' = frozen
       /\ (call'.op = "get_pyerrors" /\ ~call'.arg.value) =>
              /\ call' = Result("get_pyerrors", call'.arg,
                                get_pyerrors(correlators, Unset, ensemble_name, FALSE))
       /\ (frozen /\ ~hasattr(vevs)) => ~hasattr(vevs')]_vars

\* an ensemble frozen without VEV data was asked for subtracted observables
C9_Witness ==
    /\ frozen
    /\ ~hasattr(vevs)
    /\ call.op = "get_pyerrors"
    /\ call.arg.value
    /\ call.exc = "ValueError"

Distinct(c, col) == Cardinality(Range(Column(c, col)))

\* c holds exactly one row for each key of {1..S} x {1..T} x {1..N} x {1..N}
DenseCorr(c, S, T, N) ==
    /\ isinstance_DataFrame(c)
    /\ CorrColumnsTyped(c)
    /\ Len(c.rows) = S * T * N * N
    /\ {CorrKey(c.rows[n]) : n \in 1..Len(c.rows)}
           = (1..S) \X (1..T) \X (1..N) \X (1..N)

\* v holds exactly one row for each key of {1..S} x {1..N}
DenseVev(v, S, N) ==
    /\ isinstance_DataFrame(v)
    /\ ColumnsValid(VEVData_dtypes, v)
    /\ Len(v.rows) = S * N
    /\ {VevKey(v.rows[n]) : n \in 1..Len(v.rows)} = (1..S) \X (1..N)

InKeyOrder(c) ==
    \A n \in 1..(Len(c.rows) - 1) : LexLess(CorrKey(c.rows[n]), CorrKey(c.rows[n + 1]))

\* the dense arrays of a table of extents (S, T, N, N) hold each row's value at
\* the position its key names
C8_Holds(S, T, N) ==
    /\ (call.op = "get_numpy" /\ DenseCorr(correlators, S, T, N)) =>
           /\ call.exc = "none"
           /\ call.ret.shape = <<S, T, N, N>>
           /\ \A n \in 1..Len(correlators.rows) :
                  call.ret.data[correlators.rows[n].MC_Time][correlators.rows[n].Time]
                               [correlators.rows[n].Internal1][correlators.rows[n].Internal2]
                      = correlators.rows[n].Correlation
    /\ (call.op = "get_numpy_vevs" /\ DenseCorr(correlators, S, T, N)
          /\ DenseVev(vevs, S, N)) =>
           /\ call.exc = "none"
           /\ call.ret.shape = <<S, N>>
           /\ \A n \in 1..Len(vevs.rows) :
                  call.ret.data[vevs.rows[n].MC_Time][vevs.rows[n].Internal]
                      = vevs.rows[n].Vac_exp

SampleObs(data, S, idx, name) ==
    Obs(<<[s \in 1..S |->
             IF Len(idx) = 1 THEN data[s][idx[1]]
             ELSE data[s][idx[1]][idx[2]][idx[3]]]>>, <<name>>)

\* O_C(t,i,j) - O_V(i)*O_V(j)/NT^2
Subtracted(corr_np, vevs_np, S, nt, t, i, j, name) ==
    [kind |-> "sub",
     l |-> SampleObs(corr_np, S, <<t, i, j>>, name),
     r |-> [kind |-> "div",
            l |-> [kind |-> "mul", l |-> SampleObs(vevs_np, S, <<i>>, name),
                                   r |-> SampleObs(vevs_np, S, <<j>>, name)],
            r |-> nt * nt]]

C10_Entries(corr_np, S, T, N) ==
    /\ call.exc = "none"
    /\ call.ret.kind = "Corr"
    /\ call.ret.shape = <<T, N, N>>
    /\ \A t \in 1..T, i \in 1..N, j \in 1..N :
           call.ret.content[t][i][j] = SampleObs(corr_np, S, <<t, i, j>>, ensemble_name)

C10_SubtractedEntries(corr_np, vevs_np, nt, S, T, N) ==
    /\ call.exc = "none"
    /\ call.ret.kind = "Corr"
    /\ call.ret.shape = <<T, N, N>>
    /\ \A t \in 1..T, i \in 1..N, j \in 1..N :
           call.ret.content[t][i][j]
               = Subtracted(corr_np, vevs_np, S, nt, t, i, j, ensemble_name)

C10_Holds(S, T, N) ==
    (call.op = "get_pyerrors" /\ DenseCorr(correlators, S, T, N)) =>
        IF call.arg.value
        THEN DenseVev(vevs, S, N) =>
                 C10_SubtractedEntries(get_numpy(correlators).ret.data,
                                       get_numpy_vevs(correlators, vevs).ret.data,
                                       NT(correlators).ret, S, T, N)
        ELSE C10_Entries(get_numpy(correlators).ret.data, S, T, N)

RECURSIVE ElementAt(_, _)
ElementAt(data, idx) ==
    IF idx = <<>> THEN data ELSE ElementAt(data[Head(idx)], Tail(idx))

\* the index tuples of a shape
Indices(shape) ==
    {idx \in [1..Len(shape) -> 1..Max(Range(shape))] :
        \A k \in 1..Len(shape) : idx[k] <= shape[k]}

\* nested data has exactly the extents of shape
RECURSIVE WellShaped(_, _)
WellShaped(data, shape) ==
    /\ DOMAIN data = 1..Head(shape)
    /\ Len(shape) > 1 => \A k \in 1..Head(shape) : WellShaped(data[k], Tail(shape))

\* the observable of array[:, i1, ..., ik]: all samples, in sample order
VectorObs(array, idx, name) ==
    Obs(<<[s \in 1..array.shape[1] |-> ElementAt(array.data[s], idx)]>>, <<name>>)

C11_Holds(array, result, name) ==
    IF Len(array.shape) = 1
    THEN result = VectorObs(array, <<>>, name)
    ELSE /\ result.kind = "ndarray"
         /\ result.shape = Tail(array.shape)
         /\ WellShaped(result.data, result.shape)
         /\ \A idx \in Indices(Tail(array.shape)) :
                ElementAt(result.data, idx) = VectorObs(array, idx, name)

ValidatedData(c, v) ==
    /\ C3_Table(c)
    /\ SameElements(Column(c, "Internal1"), Column(c, "Internal2"))
    /\ hasattr(v) =>
           /\ isinstance_DataFrame(v)
           /\ ColumnsValid(VEVData_dtypes, v)
           /\ UniqueVevKeys(v)
           /\ \A n \in 1..Len(c.rows) : GroupAgrees(c, v, n)

\* C12: in every state reached from a new ensemble through the public
\* operations, frozen implies that the correlator data is a table satisfying
\* the correlator schema and that the VEV data, if present, is a table
\* satisfying the VEV schema and the cross-consistency check; and these are
\* the tables the last successful freeze() validated: a successful freeze()
\* and every operation on a frozen ensemble leave both as they are.
C12_FrozenDataValid ==
    /\ [](frozen => ValidatedData(correlators, vevs))
    /\ [][(frozen \/ (call'.op = "freeze" /\ call'.exc = "none")) =>
              (correlators' = correlators /\ vevs' = vevs)]_vars

\* an ensemble frozen with VEV data gave its subtracted observables
C12_Witness ==
    /\ frozen
    /\ hasattr(vevs)
    /\ call.op = "get_pyerrors"
    /\ call.arg.value
    /\ call.exc = "none"

====
